---- MODULE Spec2Model ----
(***************************************************************************)
(* Ledger and loan engine of nimble-banking-hub.                           *)
(*                                                                         *)
(* The model covers src/src/contexts/BankingContext.tsx (transfer,         *)
(* applyForLoan, makeLoanPayment and the fetch* helpers), the part of the  *)
(* AuthContext that supplies user.balance / user.accountNumber, and the    *)
(* submit handlers of the modals that call into the context.               *)
(*                                                                         *)
(* Every async function is cut at its awaits: one action per stretch of    *)
(* synchronous code, so that calls in flight interleave exactly where the  *)
(* JavaScript event loop lets them.  The database (account, transactions,  *)
(* loans tables) is shared state; each request to it is atomic and may     *)
(* return an error (the ok parameter of the actions).  The body of the     *)
(* update_balance function is not part of the sources: it is taken to add  *)
(* p_amount to the balance of the row, as its three call sites use it.     *)
(*                                                                         *)
(* Strings typed by the user are sequences of one-character strings.       *)
(* Nullable values are <<>> (null) or <<v>>.                               *)
(***************************************************************************)
EXTENDS Integers, Sequences, FiniteSets, TLC

\* ------------------------------------------------------------------ bounds
MaxCalls == 2
MaxTrans == 2
MaxLoans == 1

CallIds == 1..MaxCalls

\* ------------------------------------------------------------- the database
\* account table: the logged-in customer owns account 1, accounts 2 and 3
\* belong to other customers (Scenario A: 5000 and 3000; 100 is the least
\* initial deposit CompleteProfile accepts).
AccountRows == {1, 2, 3}
InitialBalance ==
  [a \in AccountRows |-> IF a = 1 THEN 5000 ELSE IF a = 2 THEN 3000 ELSE 100]
\* customers table: the row whose uid is the authenticated user, and the
\* account row whose customer_id is that customer.
MyCustomerId == 1
MyAccountId == 1

Null == <<>>
Some(v) == <<v>>
IsNull(x) == x = <<>>
Val(x) == x[1]

\* ------------------------------------------------------------ user inputs
NaN == [nan |-> TRUE, val |-> 0]
Num(n) == [nan |-> FALSE, val |-> n]

DigitChars == <<"0", "1", "2", "3", "4", "5", "6", "7", "8", "9">>
IsDigit(ch) == \E i \in 1..10 : DigitChars[i] = ch
DigitVal(ch) == (CHOOSE i \in 1..10 : DigitChars[i] = ch) - 1

RECURSIVE DigitPrefix(_, _)
\* value of the longest prefix of digits of s, continuing from acc
DigitPrefix(s, acc) ==
  IF s = <<>> \/ ~IsDigit(Head(s)) THEN acc
  ELSE DigitPrefix(Tail(s), 10 * acc + DigitVal(Head(s)))

\* parseInt / parseFloat on the input alphabet of the model (digits, "-" and
\* letters; no ".", no blanks, no exponent): an optional sign, then the
\* longest run of digits; NaN when there is no digit.
ParseNumber(s) ==
  LET neg  == s # <<>> /\ Head(s) = "-"
      body == IF neg THEN Tail(s) ELSE s
  IN  IF body = <<>> \/ ~IsDigit(Head(body)) THEN NaN
      ELSE Num(IF neg THEN 0 - DigitPrefix(body, 0) ELSE DigitPrefix(body, 0))
parseInt(s) == ParseNumber(s)
parseFloat(s) == ParseNumber(s)

RECURSIVE toString(_)
\* Number.prototype.toString for the non-negative integers of the id columns
toString(n) ==
  IF n < 10 THEN <<DigitChars[n + 1]>>
  ELSE toString(n \div 10) \o <<DigitChars[(n % 10) + 1]>>

\* JSON body of a request: NaN is serialised as null
toJSON(p) == IF p.nan THEN Null ELSE Some(p.val)

\* what callers pass: account numbers that parse to the other account ("2"),
\* to the caller's own account ("01"), to no account row ("9") and to NaN
AccountNumberInputs == { <<"2">>, <<"0", "1">>, <<"9">>, <<"a", "b", "c">> }
\* what can be typed into the account number field of TransferModal
AccountNumberTyped == AccountNumberInputs \cup { <<"1">>, <<>> }
\* what can be typed into its amount field
AmountTyped ==
  { <<"3", "0", "0", "0">>, <<"6", "0", "0", "0">>, <<"0">>, <<"-", "5", "0">>,
    <<"x">>, <<>> }
DescriptionInputs == { "rent" }
DirectAmounts == { 3000, 0, -50 }
LoanAmounts == { 12000, 0 }
LoanTerms == { 2, 30, 61 }
PaymentAmounts == { 500, 12000, 15000, 0 }
\* LoanModal: what the amount slider (1000..50000 in steps of 1000) and the
\* term select can hold, on both sides of the thresholds of the rate
SliderAmounts == { 1000, 10000, 11000 }
termOptions == { 3, 24, 36, 60 }
\* principals and terms a consumer of useBanking() passes to applyForLoan, at
\* and next to the thresholds of the rate
RatePrincipals == { 10000, 10001 }
RateTerms == { 24, 25 }

\* ----------------------------------------------------------------- state
VARIABLES
  balance,         \* account.balance, by account_id
  dbTransactions,  \* rows of the transactions table, in insertion order
  dbLoans,         \* rows of the loans table, in insertion order
  user,            \* AuthContext user: Null or Some([balance, accountNumber])
  accountId,       \* BankingProvider accountId state: Null or Some(id)
  transactions,    \* BankingProvider transactions state
  loans,           \* BankingProvider loans state
  pending,         \* fetches started by the [user] effect and not yet resolved
  calls            \* the calls of transfer/applyForLoan/makeLoanPayment in flight

vars == <<balance, dbTransactions, dbLoans, user, accountId, transactions,
          loans, pending, calls>>
dbVars == <<balance, dbTransactions, dbLoans>>

Idle ==
  [op |-> "idle", pc |-> "idle", via |-> "", to |-> <<>>, amount |-> 0,
   desc |-> "", term |-> 0, loanId |-> <<>>, acct |-> Null, cLoans |-> <<>>,
   loanIndex |-> 0, loanData |-> Null, result |-> "", shown |-> 0,
   preBalance |-> InitialBalance, preTransactions |-> <<>>]

Init ==
  /\ balance = InitialBalance
  /\ dbTransactions = <<>>
  /\ dbLoans = <<>>
  /\ user = Null
  /\ accountId = Null
  /\ transactions = <<>>
  /\ loans = <<>>
  /\ pending = {}
  /\ calls = [c \in CallIds |-> Idle]


\* ------------------------------------------------ the persistence requests
\* transactions.fromID and transactions.toID reference account.account_id
\* (transactions_fromID_fkey, transactions_toID_fkey); both are nullable.
ForeignKeyOk(id) == IsNull(id) \/ Val(id) \in AccountRows

\* insert into transactions: the new row gets the next trans_id
insertTransaction(rows, fromID, toID, amount, type) ==
  Append(rows, [trans_id |-> Len(rows) + 1, fromID |-> fromID, toID |-> toID,
                amount |-> amount, type |-> type])

\* insert into loans: the new row gets the next loan_id
insertLoan(rows, cust_id, amount, branch_id) ==
  Append(rows, [loan_id |-> Len(rows) + 1, cust_id |-> cust_id,
                amount |-> amount, branch_id |-> branch_id])

\* rpc update_balance(p_account_id, p_amount), when it returns no error: the
\* balance of the row with that account_id is changed by p_amount; no row,
\* no change.
update_balance(bal, p_account_id, p_amount) ==
  IF ~IsNull(p_account_id) /\ Val(p_account_id) \in AccountRows
  THEN [bal EXCEPT ![Val(p_account_id)] = @ + p_amount]
  ELSE bal

\* select * from transactions where fromID = id or toID = id; the request has
\* no order clause, the rows come back as the table holds them (insertion
\* order)
selectTransactions(rows, id) ==
  SelectSeq(rows, LAMBDA t : t.fromID = Some(id) \/ t.toID = Some(id))

\* select * from loans where cust_id = id
selectLoans(rows, id) == SelectSeq(rows, LAMBDA l : l.cust_id = id)

\* ------------------------------------------------------- BankingProvider
Falsy(x) == IsNull(x) \/ Val(x) = 0

\* fetchTransactions: the rows as Transaction objects
formattedTransactions(data) ==
  [i \in 1..Len(data) |->
     [id |-> toString(data[i].trans_id), trans_id |-> data[i].trans_id,
      fromID |-> data[i].fromID, toID |-> data[i].toID,
      amount |-> data[i].amount, type |-> data[i].type]]

\* The state left by fetchTransactions() run with the accountId of the
\* closure it was called from: nothing without an account id, nothing on an
\* error of the select, else the rows of the account.
fetchTransactions(acct, ok) ==
  IF Falsy(acct) \/ ~ok THEN transactions
  ELSE formattedTransactions(selectTransactions(dbTransactions, Val(acct)))

InFlight(c) == calls[c].op # "idle" /\ calls[c].pc # "done"
Quiet == \A c \in CallIds : ~InFlight(c)

\* calls in flight that have still to insert a transactions row / a loans row
ToInsertTransaction ==
  {c \in CallIds : InFlight(c) /\ calls[c].pc = "insert"
                   /\ calls[c].op \in {"transfer", "makeLoanPayment"}}
ToInsertLoan ==
  {c \in CallIds : InFlight(c) /\ calls[c].op = "applyForLoan"
                   /\ calls[c].pc \in {"customer", "insert"}}
RoomForTransaction ==
  Len(dbTransactions) + Cardinality(ToInsertTransaction) < MaxTrans
RoomForLoan == Len(dbLoans) + Cardinality(ToInsertLoan) < MaxLoans

Snapshot(r) ==
  [r EXCEPT !.preBalance = balance, !.preTransactions = dbTransactions]

Finish(c, res) == calls' = [calls EXCEPT ![c].pc = "done", ![c].result = res]
Goto(c, pc) == calls' = [calls EXCEPT ![c].pc = pc]

\* ---------------------------------------------------------------- transfer
\* transfer(): the guard before the try block
transferGuard(acct) == IF Falsy(acct) THEN "No account found" ELSE ""

\* the row transfer() inserts
transferRow(acct, toAccount, amount, description) ==
  [fromID |-> acct, toID |-> toJSON(parseInt(toAccount)), amount |-> amount,
   type |-> IF description = "" THEN "Transfer" ELSE description]

\* the two update_balance requests of transfer()
transferDebit(acct, amount) == [p_account_id |-> acct, p_amount |-> 0 - amount]
\* (mutant: the destination is debited as well)
transferCredit_debits(toAccount, amount) ==
  [p_account_id |-> toJSON(parseInt(toAccount)), p_amount |-> 0 - amount]
transferCredit(toAccount, amount) ==
  [p_account_id |-> toJSON(parseInt(toAccount)), p_amount |-> amount]

\* a call of transfer(toAccount, amount, description) up to its first await
transferBegin(c, via, toAccount, amount, description) ==
  LET r == Snapshot([Idle EXCEPT !.op = "transfer", !.via = via, !.to = toAccount,
                       !.amount = amount, !.desc = description,
                       !.acct = accountId])
      g == transferGuard(accountId)
  IN  calls' = [calls EXCEPT ![c] =
                  IF g # "" THEN [r EXCEPT !.pc = "done", !.result = g]
                  ELSE [r EXCEPT !.pc = "insert"]]

\* any consumer of useBanking() calling transfer
transfer(c, toAccount, amount, description) ==
  /\ calls[c].op = "idle"
  /\ RoomForTransaction
  /\ transferBegin(c, "useBanking", toAccount, amount, description)
  /\ UNCHANGED <<dbVars, user, accountId, transactions, loans, pending>>

\* TransferModal.handleSubmit: the checks before transfer() is called
TransferModalValidate(u, accountNumber, amount) ==
  LET transferAmount == parseFloat(amount)
      userBalance == IF IsNull(u) THEN 0 ELSE Val(u).balance
  IN  IF accountNumber = <<>> \/ amount = <<>>
        THEN "Please fill in all required fields"
      ELSE IF transferAmount.nan \/ transferAmount.val <= 0
        THEN "Please enter a valid amount"
      ELSE IF transferAmount.val > userBalance
        THEN "Insufficient balance"
      ELSE IF ~IsNull(u) /\ accountNumber = Val(u).accountNumber
        THEN "You cannot transfer to your own account"
      ELSE ""

TransferModal_handleSubmit(c, accountNumber, amount, description) ==
  LET v == TransferModalValidate(user, accountNumber, amount)
      d == IF description = "" THEN "Transfer" ELSE description
  IN  /\ calls[c].op = "idle"
      /\ RoomForTransaction
      /\ IF v # ""
         THEN calls' = [calls EXCEPT ![c] =
                Snapshot([Idle EXCEPT !.op = "transfer", !.via = "TransferModal",
                            !.to = accountNumber,
                            !.amount = IF parseFloat(amount).nan THEN 0
                                       ELSE parseFloat(amount).val,
                            !.pc = "done", !.result = v])]
         ELSE transferBegin(c, "TransferModal", accountNumber,
                            parseFloat(amount).val, d)
      /\ UNCHANGED <<dbVars, user, accountId, transactions, loans, pending>>

\* the insert into transactions resolves
transfer_insert(c, ok) ==
  LET r == calls[c]
      row == transferRow(r.acct, r.to, r.amount, r.desc)
  IN  /\ r.op = "transfer" /\ r.pc = "insert"
      /\ IF ok /\ ForeignKeyOk(row.fromID) /\ ForeignKeyOk(row.toID)
         THEN /\ dbTransactions' = insertTransaction(dbTransactions, row.fromID,
                                                     row.toID, row.amount, row.type)
              /\ Goto(c, "debit")
         ELSE /\ Finish(c, "transError")
              /\ UNCHANGED dbTransactions
      /\ UNCHANGED <<balance, dbLoans, user, accountId, transactions, loans, pending>>

\* update_balance of the source account resolves
transfer_debit(c, ok) ==
  LET r == calls[c]
      p == transferDebit(r.acct, r.amount)
  IN  /\ r.op = "transfer" /\ r.pc = "debit"
      /\ IF ok
         THEN /\ balance' = update_balance(balance, p.p_account_id, p.p_amount)
              /\ Goto(c, "credit")
         ELSE /\ Finish(c, "fromError")
              /\ UNCHANGED balance
      /\ UNCHANGED <<dbTransactions, dbLoans, user, accountId, transactions, loans,
                     pending>>

\* update_balance of the destination account resolves
transfer_credit(c, ok) ==
  LET r == calls[c]
      p == transferCredit(r.to, r.amount)
  IN  /\ r.op = "transfer" /\ r.pc = "credit"
      /\ IF ok
         THEN /\ balance' = update_balance(balance, p.p_account_id, p.p_amount)
              /\ Goto(c, "refresh")
         ELSE /\ Finish(c, "toError")
              /\ UNCHANGED balance
      /\ UNCHANGED <<dbTransactions, dbLoans, user, accountId, transactions, loans,
                     pending>>

\* await fetchTransactions() resolves; transfer() returns
transfer_refresh(c, ok) ==
  LET r == calls[c]
  IN  /\ r.op = "transfer" /\ r.pc = "refresh"
      /\ transactions' = fetchTransactions(r.acct, ok)
      /\ Finish(c, "ok")
      /\ UNCHANGED <<dbVars, user, accountId, loans, pending>>

\* the caller has handled the outcome of the call
Settle(c) ==
  /\ calls[c].pc = "done"
  /\ calls' = [calls EXCEPT ![c] = Idle]
  /\ UNCHANGED <<dbVars, user, accountId, transactions, loans, pending>>


\* ------------------------------------------------------------ applyForLoan
\* monthly payment of the amortizing-loan formula, kept as the term
\* P * i * (1+i)^n / ((1+i)^n - 1) with i = rate/100/12 over its arguments
monthlyPaymentOf(principal, interestRate, term) ==
  [P |-> principal, rate |-> interestRate, n |-> term]

\* (mutant: a principal of exactly 10000 gets the surcharge)
loanInterestRate_from10000(amount, term) ==
  5 + (IF amount >= 10000 THEN 2 ELSE 0) + (IF term > 24 THEN 1 ELSE 0)
\* applyForLoan(): const interestRate
loanInterestRate(amount, term) ==
  5 + (IF amount > 10000 THEN 2 ELSE 0) + (IF term > 24 THEN 1 ELSE 0)

\* LoanModal.calculateInterestRate over the amount and term of the form
calculateInterestRate(amount, term) ==
  5 + (IF amount > 10000 THEN 2 ELSE 0) + (IF term > 24 THEN 1 ELSE 0)

\* (mutant: the upper limit of the term is not checked)
applyForLoanValidate_noUpperTerm(u, amount, term) ==
  IF IsNull(u) THEN "User not authenticated"
  ELSE IF amount <= 0 THEN "Loan amount must be greater than zero"
  ELSE IF term < 3 THEN "Loan term must be between 3 and 60 months"
  ELSE ""
\* applyForLoan(): the checks before the try block
applyForLoanValidate(u, amount, term) ==
  IF IsNull(u) THEN "User not authenticated"
  ELSE IF amount <= 0 THEN "Loan amount must be greater than zero"
  ELSE IF term < 3 \/ term > 60 THEN "Loan term must be between 3 and 60 months"
  ELSE ""

\* the Loan object applyForLoan() puts into the local state
newLoan(loanData, u, amount, term) ==
  [id |-> toString(loanData.loan_id), loan_id |-> loanData.loan_id,
   cust_id |-> loanData.cust_id, amount |-> loanData.amount,
   branch_id |-> loanData.branch_id, remainingAmount |-> loanData.amount,
   monthlyPayment |-> monthlyPaymentOf(amount, loanInterestRate(amount, term), term),
   interestRate |-> loanInterestRate(amount, term), term |-> term,
   paid |-> FALSE, userId |-> u.id]

\* a call of applyForLoan(amount, term) up to its first await
applyForLoanBegin(c, via, shown, amount, term) ==
  LET r == Snapshot([Idle EXCEPT !.op = "applyForLoan", !.via = via,
                       !.shown = shown, !.amount = amount, !.term = term,
                       !.acct = accountId])
      v == applyForLoanValidate(user, amount, term)
  IN  calls' = [calls EXCEPT ![c] =
                  IF v # "" THEN [r EXCEPT !.pc = "done", !.result = v]
                  ELSE [r EXCEPT !.pc = "customer"]]

\* any consumer of useBanking() calling applyForLoan
applyForLoan(c, amount, term) ==
  /\ calls[c].op = "idle"
  /\ RoomForLoan
  /\ applyForLoanBegin(c, "useBanking", 0, amount, term)
  /\ UNCHANGED <<dbVars, user, accountId, transactions, loans, pending>>

\* LoanModal.handleSubmit: the checks before applyForLoan() is called
LoanModalValidate(amount, term) ==
  IF amount = 0 \/ term = 0 THEN "Please specify both loan amount and term"
  ELSE IF amount < 1000 THEN "Minimum loan amount is $1,000"
  ELSE IF amount > 50000 THEN "Maximum loan amount is $50,000"
  ELSE ""

\* LoanModal with the summary open, submitted: the summary shows
\* calculateInterestRate() of the form, applyForLoan gets the same form values
LoanModal_handleSubmit(c, amount, term) ==
  LET v == LoanModalValidate(amount, term)
      shown == calculateInterestRate(amount, term)
  IN  /\ calls[c].op = "idle"
      /\ RoomForLoan
      /\ IF v # ""
         THEN calls' = [calls EXCEPT ![c] =
                Snapshot([Idle EXCEPT !.op = "applyForLoan", !.via = "LoanModal",
                            !.shown = shown, !.amount = amount, !.term = term,
                            !.pc = "done", !.result = v])]
         ELSE applyForLoanBegin(c, "LoanModal", shown, amount, term)
      /\ UNCHANGED <<dbVars, user, accountId, transactions, loans, pending>>

\* the select of the customer row resolves
applyForLoan_customer(c, ok) ==
  LET r == calls[c]
  IN  /\ r.op = "applyForLoan" /\ r.pc = "customer"
      /\ IF ok THEN Goto(c, "insert") ELSE Finish(c, "customerError")
      /\ UNCHANGED <<dbVars, user, accountId, transactions, loans, pending>>

\* the insert into loans resolves; without an account id the function runs on
\* to setLoans and fetchTransactions
applyForLoan_insert(c, ok) ==
  LET r == calls[c]
      rows == insertLoan(dbLoans, MyCustomerId, r.amount, 1)
      loanData == rows[Len(rows)]
  IN  /\ r.op = "applyForLoan" /\ r.pc = "insert"
      /\ IF ~ok
         THEN /\ Finish(c, "loanError")
              /\ UNCHANGED <<dbLoans, loans>>
         ELSE /\ dbLoans' = rows
              /\ IF Falsy(r.acct)
                 THEN /\ loans' = <<newLoan(loanData, Val(user), r.amount, r.term)>>
                                  \o loans
                      /\ calls' = [calls EXCEPT ![c].pc = "refresh",
                                                ![c].loanData = Some(loanData)]
                 ELSE /\ calls' = [calls EXCEPT ![c].pc = "balance",
                                                ![c].loanData = Some(loanData)]
                      /\ UNCHANGED loans
      /\ UNCHANGED <<balance, dbTransactions, user, accountId, transactions, pending>>

\* the update_balance request of applyForLoan()
applyForLoanCredit(acct, amount) == [p_account_id |-> acct, p_amount |-> amount]

\* update_balance resolves; on success the new loan is put in front of the list
applyForLoan_balance(c, ok) ==
  LET r == calls[c]
      p == applyForLoanCredit(r.acct, r.amount)
  IN  /\ r.op = "applyForLoan" /\ r.pc = "balance"
      /\ IF ok
         THEN /\ balance' = update_balance(balance, p.p_account_id, p.p_amount)
              /\ loans' = <<newLoan(Val(r.loanData), Val(user), r.amount, r.term)>>
                          \o loans
              /\ Goto(c, "refresh")
         ELSE /\ Finish(c, "balanceError")
              /\ UNCHANGED <<balance, loans>>
      /\ UNCHANGED <<dbTransactions, dbLoans, user, accountId, transactions, pending>>

\* await fetchTransactions() resolves; applyForLoan() returns
applyForLoan_refresh(c, ok) ==
  LET r == calls[c]
  IN  /\ r.op = "applyForLoan" /\ r.pc = "refresh"
      /\ transactions' = fetchTransactions(r.acct, ok)
      /\ Finish(c, "ok")
      /\ UNCHANGED <<dbVars, user, accountId, loans, pending>>

\* --------------------------------------------------------- makeLoanPayment
\* loans.findIndex(loan => loan.id === loanId); 0 when there is none
findIndex(ls, loanId) ==
  IF \E i \in 1..Len(ls) : ls[i].id = loanId
  THEN CHOOSE i \in 1..Len(ls) :
         ls[i].id = loanId /\ \A j \in 1..(i - 1) : ls[j].id # loanId
  ELSE 0

\* (mutant: the payment is not compared with the remaining amount)
makeLoanPaymentValidate_noExceeds(u, ls, loanId, amount) ==
  LET i == findIndex(ls, loanId)
  IN  IF IsNull(u) THEN "User not authenticated"
      ELSE IF i = 0 THEN "Loan not found"
      ELSE IF amount <= 0 THEN "Payment amount must be greater than zero"
      ELSE IF Val(u).balance < amount THEN "Insufficient balance"
      ELSE ""
\* makeLoanPayment(): the checks before the try block
makeLoanPaymentValidate(u, ls, loanId, amount) ==
  LET i == findIndex(ls, loanId)
  IN  IF IsNull(u) THEN "User not authenticated"
      ELSE IF i = 0 THEN "Loan not found"
      ELSE IF amount <= 0 THEN "Payment amount must be greater than zero"
      ELSE IF amount > ls[i].remainingAmount
        THEN "Payment amount exceeds remaining loan balance"
      ELSE IF Val(u).balance < amount THEN "Insufficient balance"
      ELSE ""

\* (mutant: a loan paid down to exactly 0 is not marked paid)
updatedLoan_paidBelowZero(loan, amount) ==
  [loan EXCEPT !.remainingAmount = loan.remainingAmount - amount,
               !.paid = (loan.remainingAmount - amount < 0)]
\* the loan as makeLoanPayment() rewrites it
updatedLoan(loan, amount) ==
  [loan EXCEPT !.remainingAmount = loan.remainingAmount - amount,
               !.paid = (loan.remainingAmount - amount <= 0)]

\* a call of makeLoanPayment(loanId, amount) up to its first await; without
\* an account id the try block does nothing and the call returns
makeLoanPaymentBegin(c, via, loanId, amount) ==
  LET r == Snapshot([Idle EXCEPT !.op = "makeLoanPayment", !.via = via,
                       !.loanId = loanId, !.amount = amount, !.acct = accountId,
                       !.cLoans = loans, !.loanIndex = findIndex(loans, loanId)])
      v == makeLoanPaymentValidate(user, loans, loanId, amount)
  IN  calls' = [calls EXCEPT ![c] =
                  IF v # "" THEN [r EXCEPT !.pc = "done", !.result = v]
                  ELSE IF Falsy(accountId)
                    THEN [r EXCEPT !.pc = "done", !.result = "ok"]
                  ELSE [r EXCEPT !.pc = "insert"]]

\* any consumer of useBanking() calling makeLoanPayment
makeLoanPayment(c, loanId, amount) ==
  /\ calls[c].op = "idle"
  /\ RoomForTransaction
  /\ makeLoanPaymentBegin(c, "useBanking", loanId, amount)
  /\ UNCHANGED <<dbVars, user, accountId, transactions, loans, pending>>

\* LoanPaymentModal.handleSubmit: the checks before makeLoanPayment() is called
LoanPaymentModalValidate(u, loan, amount) ==
  LET userBalance == IF IsNull(u) THEN 0 ELSE Val(u).balance
  IN  IF amount = 0 THEN "Please specify payment amount"
      ELSE IF amount <= 0 THEN "Payment amount must be greater than zero"
      ELSE IF amount > userBalance THEN "Insufficient balance"
      ELSE IF amount > loan.remainingAmount
        THEN "Payment exceeds remaining loan balance"
      ELSE ""

\* The Loans page offers "Make a Payment" for the loans that are not paid;
\* LoanPaymentModal is opened on loan i of the list and submitted.
LoanPaymentModal_handleSubmit(c, i, amount) ==
  LET loan == loans[i]
      v == LoanPaymentModalValidate(user, loan, amount)
  IN  /\ calls[c].op = "idle"
      /\ RoomForTransaction
      /\ ~loan.paid
      /\ IF v # ""
         THEN calls' = [calls EXCEPT ![c] =
                Snapshot([Idle EXCEPT !.op = "makeLoanPayment",
                            !.via = "LoanPaymentModal", !.loanId = loan.id,
                            !.amount = amount, !.cLoans = loans, !.loanIndex = i,
                            !.pc = "done", !.result = v])]
         ELSE makeLoanPaymentBegin(c, "LoanPaymentModal", loan.id, amount)
      /\ UNCHANGED <<dbVars, user, accountId, transactions, loans, pending>>

\* the insert of the loan-payment row resolves
makeLoanPayment_insert(c, ok) ==
  LET r == calls[c]
  IN  /\ r.op = "makeLoanPayment" /\ r.pc = "insert"
      /\ IF ok /\ ForeignKeyOk(r.acct)
         THEN /\ dbTransactions' = insertTransaction(dbTransactions, r.acct, Null,
                                                     r.amount, "loan-payment")
              /\ Goto(c, "balance")
         ELSE /\ Finish(c, "transError")
              /\ UNCHANGED dbTransactions
      /\ UNCHANGED <<balance, dbLoans, user, accountId, transactions, loans, pending>>

\* the update_balance request of makeLoanPayment()
makeLoanPaymentDebit(acct, amount) ==
  [p_account_id |-> acct, p_amount |-> 0 - amount]

\* update_balance resolves; on success the list captured by the call, with the
\* loan rewritten, replaces the local list
makeLoanPayment_balance(c, ok) ==
  LET r == calls[c]
      p == makeLoanPaymentDebit(r.acct, r.amount)
  IN  /\ r.op = "makeLoanPayment" /\ r.pc = "balance"
      /\ IF ok
         THEN /\ balance' = update_balance(balance, p.p_account_id, p.p_amount)
              /\ loans' = [r.cLoans EXCEPT ![r.loanIndex] =
                             updatedLoan(r.cLoans[r.loanIndex], r.amount)]
              /\ Goto(c, "refresh")
         ELSE /\ Finish(c, "balanceError")
              /\ UNCHANGED <<balance, loans>>
      /\ UNCHANGED <<dbTransactions, dbLoans, user, accountId, transactions, pending>>

\* await fetchTransactions() resolves; makeLoanPayment() returns
makeLoanPayment_refresh(c, ok) ==
  LET r == calls[c]
  IN  /\ r.op = "makeLoanPayment" /\ r.pc = "refresh"
      /\ transactions' = fetchTransactions(r.acct, ok)
      /\ Finish(c, "ok")
      /\ UNCHANGED <<dbVars, user, accountId, loans, pending>>

\* ------------------------------------------------- what consumers read
\* user?.id
userIdOf(u) == IF IsNull(u) THEN Null ELSE Val(u).id

\* getAccountTransactions(): the transactions state, filtered by the account id
getAccountTransactions(ts, acct) ==
  IF Falsy(acct) THEN <<>>
  ELSE SelectSeq(ts, LAMBDA t : t.fromID = acct \/ t.toID = acct)

\* (mutant: the paid loans are counted instead of the unpaid ones)
hasActiveLoans_paid(ls, u) ==
  \E i \in 1..Len(ls) : ls[i].paid /\ ls[i].userId = userIdOf(u)
\* hasActiveLoans, as the provider computes it on every render
hasActiveLoans(ls, u) ==
  \E i \in 1..Len(ls) : ~ls[i].paid /\ ls[i].userId = userIdOf(u)

\* ------------------------------------------------- AuthContext and effects
\* fetchUserProfile (initial session, sign-in, any auth state change): the
\* user object takes the balance the account row has now.  The spread of the
\* getUser() promise adds no property, so user.id is undefined.  The new user
\* object re-runs the [user] effect of BankingProvider: fetchAccountData,
\* fetchTransactions (which returns at once without an account id) and
\* fetchLoans.
fetchUserProfile ==
  /\ user' = Some([id |-> Null, balance |-> balance[MyAccountId],
                   accountNumber |-> toString(MyAccountId)])
  /\ pending' = pending \cup {"fetchAccountData", "fetchLoans"}
                  \cup (IF Falsy(accountId) THEN {} ELSE {"fetchTransactions"})
  /\ UNCHANGED <<dbVars, accountId, transactions, loans, calls>>

\* fetchAccountData resolves
fetchAccountData(ok) ==
  /\ "fetchAccountData" \in pending
  /\ pending' = pending \ {"fetchAccountData"}
  /\ accountId' = IF ok THEN Some(MyAccountId) ELSE accountId
  /\ UNCHANGED <<dbVars, user, transactions, loans, calls>>

\* fetchTransactions of the effect resolves
fetchTransactionsEffect(ok) ==
  /\ "fetchTransactions" \in pending
  /\ pending' = pending \ {"fetchTransactions"}
  /\ transactions' = fetchTransactions(accountId, ok)
  /\ UNCHANGED <<dbVars, user, accountId, loans, calls>>

\* (mutant: the reload takes 120% of the principal as the remaining amount)
formattedLoans_above(data, u) ==
  [i \in 1..Len(data) |->
     LET loan == data[i]
         remainingAmount == (loan.amount * 12) \div 10
         interestRate == 5 + (IF loan.amount > 10000 THEN 2 ELSE 0)
         term == 24
     IN  [id |-> toString(loan.loan_id), loan_id |-> loan.loan_id,
          cust_id |-> loan.cust_id, amount |-> loan.amount,
          branch_id |-> loan.branch_id, remainingAmount |-> remainingAmount,
          monthlyPayment |-> monthlyPaymentOf(loan.amount, interestRate, term),
          interestRate |-> interestRate, term |-> term,
          paid |-> (remainingAmount <= 0), userId |-> u.id]]
\* fetchLoans: the rows as Loan objects
formattedLoans(data, u) ==
  [i \in 1..Len(data) |->
     LET loan == data[i]
         remainingAmount == (loan.amount * 8) \div 10
         interestRate == 5 + (IF loan.amount > 10000 THEN 2 ELSE 0)
         term == 24
     IN  [id |-> toString(loan.loan_id), loan_id |-> loan.loan_id,
          cust_id |-> loan.cust_id, amount |-> loan.amount,
          branch_id |-> loan.branch_id, remainingAmount |-> remainingAmount,
          monthlyPayment |-> monthlyPaymentOf(loan.amount, interestRate, term),
          interestRate |-> interestRate, term |-> term,
          paid |-> (remainingAmount <= 0), userId |-> u.id]]

\* fetchLoans resolves
fetchLoans(ok) ==
  /\ "fetchLoans" \in pending
  /\ pending' = pending \ {"fetchLoans"}
  /\ loans' = IF ok THEN formattedLoans(selectLoans(dbLoans, MyCustomerId), Val(user))
              ELSE loans
  /\ UNCHANGED <<dbVars, user, accountId, transactions, calls>>

\* ------------------------------------------------------------ specifications
LoanIdInputs == { toString(i) : i \in 1..(MaxLoans + 1) }

\* AuthContext events and the fetches of the [user] effect
Effects ==
  \/ fetchUserProfile
  \/ \E ok \in BOOLEAN : fetchAccountData(ok)
  \/ \E ok \in BOOLEAN : fetchTransactionsEffect(ok)
  \/ \E ok \in BOOLEAN : fetchLoans(ok)

TransferSteps ==
  \/ \E c \in CallIds, ok \in BOOLEAN : transfer_insert(c, ok)
  \/ \E c \in CallIds, ok \in BOOLEAN : transfer_debit(c, ok)
  \/ \E c \in CallIds, ok \in BOOLEAN : transfer_credit(c, ok)
  \/ \E c \in CallIds, ok \in BOOLEAN : transfer_refresh(c, ok)

ApplySteps ==
  \/ \E c \in CallIds, ok \in BOOLEAN : applyForLoan_customer(c, ok)
  \/ \E c \in CallIds, ok \in BOOLEAN : applyForLoan_insert(c, ok)
  \/ \E c \in CallIds, ok \in BOOLEAN : applyForLoan_balance(c, ok)
  \/ \E c \in CallIds, ok \in BOOLEAN : applyForLoan_refresh(c, ok)

PaymentSteps ==
  \/ \E c \in CallIds, ok \in BOOLEAN : makeLoanPayment_insert(c, ok)
  \/ \E c \in CallIds, ok \in BOOLEAN : makeLoanPayment_balance(c, ok)
  \/ \E c \in CallIds, ok \in BOOLEAN : makeLoanPayment_refresh(c, ok)

LoanSteps == ApplySteps \/ PaymentSteps

\* One call at a time (the next one starts when the caller has handled the
\* outcome of the last), in call slot 1; the effects interleave freely.
TransferCalls ==
  \/ \E to \in AccountNumberInputs, a \in DirectAmounts, d \in DescriptionInputs :
        transfer(1, to, a, d)
  \/ \E to \in AccountNumberTyped, a \in AmountTyped, d \in DescriptionInputs :
        TransferModal_handleSubmit(1, to, a, d)

LoanCalls ==
  \/ \E a \in LoanAmounts, t \in LoanTerms : applyForLoan(1, a, t)
  \/ \E id \in LoanIdInputs, a \in PaymentAmounts : makeLoanPayment(1, id, a)

\* all operations, the transfers going to the other customer's account
Next ==
  \/ Effects
  \/ \E a \in DirectAmounts : transfer(1, <<"2">>, a, "")
  \/ \E a \in AmountTyped : TransferModal_handleSubmit(1, <<"2">>, a, "")
  \/ TransferSteps
  \/ LoanCalls
  \/ \E i \in 1..Len(loans), a \in PaymentAmounts :
        LoanPaymentModal_handleSubmit(1, i, a)
  \/ LoanSteps
  \/ \E c \in CallIds : Settle(c)

Spec == Init /\ [][Next]_vars

\* transfers only
NextTransfers ==
  \/ Effects
  \/ TransferCalls
  \/ TransferSteps
  \/ \E c \in CallIds : Settle(c)

SpecTransfers == Init /\ [][NextTransfers]_vars

\* loan applications and loan payments only
NextLoans ==
  \/ Effects
  \/ LoanCalls
  \/ LoanSteps
  \/ \E c \in CallIds : Settle(c)

SpecLoans == Init /\ [][NextLoans]_vars

\* Two transfers submitted from TransferModal or by a consumer of useBanking()
\* while another is in flight, in any call slot.
NextConcurrentTransfers ==
  \/ fetchUserProfile
  \/ \E ok \in BOOLEAN : fetchAccountData(ok)
  \/ \E ok \in BOOLEAN : fetchTransactionsEffect(ok)
  \/ \E ok \in BOOLEAN : fetchLoans(ok)
  \/ \E c \in CallIds, a \in {3000, 100} : transfer(c, <<"2">>, a, "")
  \/ \E c \in CallIds, a \in {<<"3", "0", "0", "0">>, <<"6", "0", "0", "0">>} :
        TransferModal_handleSubmit(c, <<"2">>, a, "")
  \/ TransferSteps
  \/ \E c \in CallIds : Settle(c)

SpecConcurrentTransfers == Init /\ [][NextConcurrentTransfers]_vars

\* Payments of 500 on the first loan made by a consumer of useBanking() while
\* another payment is in flight, in any call slot.
NextConcurrentPayments ==
  \/ Effects
  \/ applyForLoan(1, 12000, 30)
  \/ ApplySteps
  \/ \E c \in CallIds : makeLoanPayment(c, toString(1), 500)
  \/ PaymentSteps
  \/ \E c \in CallIds : Settle(c)

SpecConcurrentPayments == Init /\ [][NextConcurrentPayments]_vars

\* A session that starts with a transaction of the account already in the
\* table (an earlier transfer from account 2 to account 1), then transfers.
EarlierTransactions ==
  insertTransaction(<<>>, Some(2), Some(MyAccountId), 100, "Transfer")

InitReads ==
  /\ balance = InitialBalance
  /\ dbTransactions = EarlierTransactions
  /\ dbLoans = <<>>
  /\ user = Null
  /\ accountId = Null
  /\ transactions = <<>>
  /\ loans = <<>>
  /\ pending = {}
  /\ calls = [c \in CallIds |-> Idle]

NextReads ==
  \/ Effects
  \/ \E a \in DirectAmounts : transfer(1, <<"2">>, a, "")
  \/ \E a \in AmountTyped : TransferModal_handleSubmit(1, <<"2">>, a, "")
  \/ TransferSteps
  \/ \E c \in CallIds : Settle(c)

SpecReads == InitReads /\ [][NextReads]_vars

\* Loan applications only, from LoanModal and from consumers of useBanking(),
\* with principals and terms on both sides of the thresholds of the rate.
NextRates ==
  \/ Effects
  \/ \E a \in RatePrincipals, t \in RateTerms : applyForLoan(1, a, t)
  \/ \E a \in SliderAmounts, t \in termOptions : LoanModal_handleSubmit(1, a, t)
  \/ ApplySteps
  \/ \E c \in CallIds : Settle(c)

SpecRates == Init /\ [][NextRates]_vars


\* ------------------------------------------------------------------ claims
RECURSIVE SumOver(_, _)
SumOver(f, S) ==
  IF S = {} THEN 0
  ELSE LET x == CHOOSE y \in S : TRUE IN f[x] + SumOver(f, S \ {x})
SumBalances(bal) == SumOver(bal, AccountRows)
SumAmounts(rows) == SumOver([i \in 1..Len(rows) |-> rows[i].amount], 1..Len(rows))
LoanPaymentRows == SelectSeq(dbTransactions, LAMBDA t : t.type = "loan-payment")

Returned(c) == calls[c].op # "idle" /\ calls[c].pc = "done"
\* the call ended in an error: a check refused it, or a request failed
Failed(c) == Returned(c) /\ calls[c].result # "ok"
\* the database is as it was when the call was made
NothingChangedSince(c) ==
  /\ balance = calls[c].preBalance
  /\ dbTransactions = calls[c].preTransactions
\* the account row the destination of a transfer call resolves to, if any
Destination(c) == toJSON(parseInt(calls[c].to))
DestinationExists(c) ==
  ~IsNull(Destination(c)) /\ Val(Destination(c)) \in AccountRows

\* C1: in every reachable state every account's balance is >= 0.
NoNegativeBalance == \A a \in AccountRows : balance[a] >= 0

\* C2: of two concurrent transfers from the same source, each covered by the
\* balance but not both together, at most one succeeds.  (Two calls that saw
\* the same transaction log when they were made overlap: neither had inserted
\* its row when the other started.)
AtMostOneConcurrentTransferSucceeds ==
  \A c1, c2 \in CallIds :
    ( /\ c1 # c2
      /\ calls[c1].op = "transfer" /\ calls[c2].op = "transfer"
      /\ ~Falsy(calls[c1].acct) /\ calls[c1].acct = calls[c2].acct
      /\ calls[c1].preTransactions = calls[c2].preTransactions
      /\ calls[c1].preBalance = calls[c2].preBalance
      /\ calls[c1].amount > 0 /\ calls[c2].amount > 0
      /\ calls[c1].amount <= calls[c1].preBalance[Val(calls[c1].acct)]
      /\ calls[c2].amount <= calls[c1].preBalance[Val(calls[c1].acct)]
      /\ calls[c1].amount + calls[c2].amount
           > calls[c1].preBalance[Val(calls[c1].acct)] )
    => ~(Returned(c1) /\ calls[c1].result = "ok"
         /\ Returned(c2) /\ calls[c2].result = "ok")

\* C3: a transfer that is rejected or fails at any step leaves the balances
\* and the transaction log as they were before the call.
FailedTransferChangesNothing ==
  \A c \in CallIds :
    (calls[c].op = "transfer" /\ calls[c].amount > 0 /\ Failed(c))
    => NothingChangedSince(c)

\* C4: whenever no call is in flight, the sum of the balances is the sum of
\* the initial deposits plus the principal of all loans created minus all
\* loan payments made (so no transfer, successful or failed, has changed it).
Conservation ==
  Quiet => SumBalances(balance)
             = SumBalances(InitialBalance) + SumAmounts(dbLoans)
               - SumAmounts(LoanPaymentRows)

\* C5: a successful transfer of a from A to a different existing account B
\* takes exactly a from A, adds exactly a to B, appends exactly one record
\* (fromID = A, toID = B, amount = a) and changes no other balance.
SuccessfulTransferEffect ==
  \A c \in CallIds :
    ( /\ calls[c].op = "transfer" /\ Returned(c) /\ calls[c].result = "ok"
      /\ DestinationExists(c) /\ Destination(c) # calls[c].acct )
    => LET r == calls[c]
           A == Val(r.acct)
           B == Val(Destination(c))
           n == Len(r.preTransactions)
       IN  /\ balance[A] = r.preBalance[A] - r.amount
           /\ balance[B] = r.preBalance[B] + r.amount
           /\ \A x \in AccountRows \ {A, B} : balance[x] = r.preBalance[x]
           /\ Len(dbTransactions) = n + 1
           /\ SubSeq(dbTransactions, 1, n) = r.preTransactions
           /\ dbTransactions[n + 1].fromID = Some(A)
           /\ dbTransactions[n + 1].toID = Some(B)
           /\ dbTransactions[n + 1].amount = r.amount

SuccessfulTransferWitness ==
  \E c \in CallIds :
    /\ calls[c].op = "transfer" /\ Returned(c) /\ calls[c].result = "ok"
    /\ DestinationExists(c) /\ Destination(c) # calls[c].acct
    /\ calls[c].amount = 3000
    /\ Len(calls[c].preTransactions) = 1

\* C6: a transfer submitted (with an account number and a positive amount)
\* for more than the balance the source account has at that time is rejected
\* with "Insufficient balance" and changes nothing.
OverdrawingTransferRejected ==
  \A c \in CallIds :
    ( /\ calls[c].op = "transfer" /\ calls[c].via = "TransferModal"
      /\ calls[c].to # <<>> /\ calls[c].amount > 0
      /\ calls[c].amount > calls[c].preBalance[MyAccountId] )
    => /\ Returned(c) /\ calls[c].result = "Insufficient balance"
       /\ NothingChangedSince(c)

\* C7: a transfer with amount <= 0 is rejected before any balance is touched
\* and before any record is inserted, whoever calls transfer.
NonPositiveTransferRejected ==
  \A c \in CallIds :
    ( /\ calls[c].op = "transfer" /\ calls[c].via = "useBanking"
      /\ ~Falsy(calls[c].acct) /\ calls[c].amount <= 0 )
    => /\ Failed(c)
       /\ NothingChangedSince(c)

\* C8: a transfer whose destination account number resolves to the caller's
\* own account is rejected, with no balance change and no record.
SelfTransferRejected ==
  \A c \in CallIds :
    ( /\ calls[c].op = "transfer" /\ calls[c].via = "TransferModal"
      /\ calls[c].amount > 0
      /\ Destination(c) = Some(MyAccountId) )
    => /\ Failed(c)
       /\ NothingChangedSince(c)

\* C9: a transfer whose destination account does not exist is rejected; the
\* source is not debited and no record is appended.
TransferToMissingAccountRejected ==
  \A c \in CallIds :
    ( /\ calls[c].op = "transfer" /\ ~Falsy(calls[c].acct)
      /\ calls[c].amount > 0
      /\ calls[c].pc # "insert" /\ ~DestinationExists(c) )
    => /\ Failed(c)
       /\ NothingChangedSince(c)

\* C10: applyForLoan rejects amount <= 0 and any term outside 3..60 at once,
\* with the matching error, creating no loan record and changing no balance
\* and not the local loans list.
ApplyForLoanRejectsInvalid ==
  [][ \A c \in CallIds :
        ( /\ calls[c].op = "idle" /\ calls'[c].op = "applyForLoan"
          /\ ~IsNull(user)
          /\ (calls'[c].amount <= 0 \/ calls'[c].term < 3 \/ calls'[c].term > 60) )
        => /\ calls'[c].pc = "done"
           /\ calls'[c].result =
                IF calls'[c].amount <= 0
                THEN "Loan amount must be greater than zero"
                ELSE "Loan term must be between 3 and 60 months"
           /\ UNCHANGED <<dbLoans, balance, dbTransactions, loans>> ]_vars

ApplyForLoanRejectedWitness ==
  \E c \in CallIds :
    /\ calls[c].op = "applyForLoan" /\ Returned(c)
    /\ calls[c].term > 60 /\ calls[c].amount > 0
    /\ calls[c].result = "Loan term must be between 3 and 60 months"
    /\ ~Falsy(accountId)

\* C11: the rate of every loan in the list is 5, plus 2 if its principal is
\* over 10000, plus 1 if its term is over 24 months, hence one of 5, 6, 7, 8;
\* and the loan applyForLoan puts into the list carries the rate the LoanModal
\* summary showed for the same principal and term.
RatePolicy ==
  [][ /\ \A i \in 1..Len(loans') :
           /\ loans'[i].interestRate
                = 5 + (IF loans'[i].amount > 10000 THEN 2 ELSE 0)
                    + (IF loans'[i].term > 24 THEN 1 ELSE 0)
           /\ loans'[i].interestRate \in {5, 6, 7, 8}
      /\ \A c \in CallIds :
           ( /\ calls[c].op = "applyForLoan" /\ calls'[c].pc = "refresh"
             /\ calls[c].pc # "refresh" )
           => /\ Len(loans') = Len(loans) + 1
              /\ loans'[1].amount = calls[c].amount
              /\ loans'[1].term = calls[c].term
              /\ calls[c].via = "LoanModal"
                   => loans'[1].interestRate = calls[c].shown ]_vars

RatePolicyWitness ==
  \E c \in CallIds :
    /\ calls[c].op = "applyForLoan" /\ calls[c].via = "LoanModal"
    /\ Returned(c) /\ calls[c].result = "ok"
    /\ calls[c].amount = 10000 /\ calls[c].term = 36 /\ calls[c].shown = 6
    /\ Len(loans) = 1 /\ loans[1].interestRate = 6 /\ loans[1].term = 36

\* C12: an applyForLoan(amount, term) that returns without error has created
\* exactly one loan record, of that amount, and has raised the balance of the
\* customer's account by exactly amount.
SuccessfulLoanEffect ==
  \A c \in CallIds :
    (calls[c].op = "applyForLoan" /\ Returned(c) /\ calls[c].result = "ok")
    => LET r == calls[c]
           row == Val(r.loanData)
       IN  /\ Len(dbLoans) = row.loan_id
           /\ dbLoans[row.loan_id].amount = r.amount
           /\ balance[MyAccountId] = r.preBalance[MyAccountId] + r.amount

\* C13: after an applyForLoan that returned without error, having credited the
\* account it was called for, the transaction log holds a loan-disbursement
\* record from the bank (null) to that account for the principal.
DisbursementRecorded ==
  \A c \in CallIds :
    ( /\ calls[c].op = "applyForLoan" /\ Returned(c) /\ calls[c].result = "ok"
      /\ ~Falsy(calls[c].acct) )
    => \E i \in 1..Len(dbTransactions) :
         /\ dbTransactions[i].type = "loan-disbursement"
         /\ dbTransactions[i].fromID = Null
         /\ dbTransactions[i].toID = calls[c].acct
         /\ dbTransactions[i].amount = calls[c].amount

\* C14: once an applyForLoan call for a positive amount has finished, by
\* returning or by throwing, it has persisted a loan record if and only if
\* the principal has been credited to the customer's account.
LoanAndDisbursementOneUnit ==
  \A c \in CallIds :
    (calls[c].op = "applyForLoan" /\ Returned(c) /\ calls[c].amount > 0)
    => ( ~IsNull(calls[c].loanData)
         <=> balance[MyAccountId]
               = calls[c].preBalance[MyAccountId] + calls[c].amount )

\* C15: a makeLoanPayment for more than the remaining amount of the loan is
\* rejected at once with "Payment amount exceeds remaining loan balance"; no
\* record is inserted, no balance and no loan changes (nothing is clamped or
\* applied in part).
PaymentExceedingRemainingRejected ==
  [][ \A c \in CallIds :
        ( /\ calls[c].op = "idle" /\ calls'[c].op = "makeLoanPayment"
          /\ calls'[c].via = "useBanking"
          /\ ~IsNull(user)
          /\ findIndex(loans, calls'[c].loanId) # 0
          /\ calls'[c].amount
               > loans[findIndex(loans, calls'[c].loanId)].remainingAmount )
        => /\ calls'[c].pc = "done"
           /\ calls'[c].result = "Payment amount exceeds remaining loan balance"
           /\ UNCHANGED <<balance, dbTransactions, dbLoans, loans>> ]_vars

\* Scenario C with a balance that would cover the payment
PaymentExceedingRemainingWitness ==
  \E c \in CallIds :
    /\ calls[c].op = "makeLoanPayment" /\ Returned(c)
    /\ calls[c].result = "Payment amount exceeds remaining loan balance"
    /\ calls[c].amount = 15000
    /\ calls[c].cLoans[calls[c].loanIndex].remainingAmount = 12000
    /\ Val(user).balance >= 15000
    /\ NothingChangedSince(c)

\* C16: a makeLoanPayment (for a loan of the list, a positive amount within
\* the remaining amount) made when the balance of the payer's account is
\* below the amount is rejected with "Insufficient balance", and nothing
\* changes.
PaymentWithoutFundsRejected ==
  \A c \in CallIds :
    ( /\ calls[c].op = "makeLoanPayment"
      /\ calls[c].loanIndex # 0
      /\ calls[c].amount > 0
      /\ calls[c].amount <= calls[c].cLoans[calls[c].loanIndex].remainingAmount
      /\ calls[c].amount > calls[c].preBalance[MyAccountId] )
    => /\ Returned(c) /\ calls[c].result = "Insufficient balance"
       /\ NothingChangedSince(c)

\* C17: a makeLoanPayment(loanId, amount) that returns without error has
\* taken exactly amount from the payer's account and appended exactly one
\* loan-payment record from that account to the bank (null) for the amount.
SuccessfulPaymentEffect ==
  \A c \in CallIds :
    (calls[c].op = "makeLoanPayment" /\ Returned(c) /\ calls[c].result = "ok")
    => LET r == calls[c]
           n == Len(r.preTransactions)
       IN  /\ balance[MyAccountId] = r.preBalance[MyAccountId] - r.amount
           /\ Len(dbTransactions) = n + 1
           /\ dbTransactions[n + 1].type = "loan-payment"
           /\ dbTransactions[n + 1].fromID = Some(MyAccountId)
           /\ dbTransactions[n + 1].toID = Null
           /\ dbTransactions[n + 1].amount = r.amount

\* C18: in no step does the remaining amount of a loan of the list go up, and
\* in no step does a loan that was paid become unpaid.
LoanMonotonic ==
  [][ \A i \in 1..Len(loans), j \in 1..Len(loans') :
        loans[i].id = loans'[j].id
        => /\ loans'[j].remainingAmount <= loans[i].remainingAmount
           /\ loans[i].paid => loans'[j].paid ]_vars

PaidIsTerminal ==
  [][ /\ \A i \in 1..Len(loans), j \in 1..Len(loans') :
           (loans[i].paid /\ loans[i].id = loans'[j].id) => loans'[j] = loans[i]
      /\ \A c \in CallIds :
           ( /\ calls[c].op = "idle" /\ calls'[c].op = "makeLoanPayment"
             /\ calls'[c].loanIndex # 0
             /\ loans[calls'[c].loanIndex].paid )
           => (calls'[c].pc = "done" /\ calls'[c].result # "ok") ]_vars

MostRecentFirst ==
  LET l == getAccountTransactions(transactions, accountId)
  IN  \A i, j \in 1..Len(l) : i < j => l[i].trans_id > l[j].trans_id

\* C24: with the user signed in, the account id resolved, no fetch of the
\* [user] effect outstanding and no call in flight, getAccountTransactions
\* returns every persisted transaction from or to the user's account.
ReadsReflectLatest ==
  ( ~IsNull(user) /\ ~Falsy(accountId) /\ pending = {} /\ Quiet )
  => LET l == getAccountTransactions(transactions, accountId)
     IN  \A i \in 1..Len(dbTransactions) :
           ( dbTransactions[i].fromID = accountId
             \/ dbTransactions[i].toID = accountId )
           => \E k \in 1..Len(l) : l[k].trans_id = dbTransactions[i].trans_id

\* the kinds of transaction record ("Transfer", as transfer() writes it by
\* default, counts as the kind transfer)
Kinds ==
  {"transfer", "Transfer", "deposit", "withdrawal", "loan-disbursement",
   "loan-payment"}

\* C25: every record of the transactions table has a kind of the fixed set;
\* a record written by transfer (every record but the loan payments) has the
\* kind transfer, whatever the description was.
KindsAreFixed ==
  \A i \in 1..Len(dbTransactions) :
    /\ dbTransactions[i].type \in Kinds
    /\ dbTransactions[i].type # "loan-payment"
         => dbTransactions[i].type \in {"transfer", "Transfer"}

\* C26: no record of a transfer is in the log unless the balance changes of
\* all logged transfers are applied: every balance is the initial balance
\* minus the amounts logged from the account plus the amounts logged to it.
RecordedOnlyAfterBalances ==
  \A a \in AccountRows :
    balance[a]
      = InitialBalance[a]
        - SumAmounts(SelectSeq(dbTransactions, LAMBDA t : t.fromID = Some(a)))
        + SumAmounts(SelectSeq(dbTransactions, LAMBDA t : t.toID = Some(a)))

\* a profile read: fetchUserProfile replaces the user object with the balance
\* the account row has now, and starts the fetches of the [user] effect
ProfileRead == user' # user \/ (pending' # pending /\ pending \subseteq pending')

\* C27: no request reads while a transfer is between its log insert and its
\* last balance update, so that no reader sees a logged transfer without its
\* debit, or a debit without its credit.
TransferAtomicForReaders ==
  [][ ProfileRead
      => \A c \in CallIds :
           ~(calls[c].op = "transfer" /\ calls[c].pc \in {"debit", "credit"}) ]_vars

\* C28: no step changes the principal, the rate, the term or the monthly
\* payment of a loan of the list, and only the step in which a makeLoanPayment
\* call writes its payment changes the remaining amount.
LoanMutatedOnlyByRepayment ==
  [][ \A i \in 1..Len(loans), j \in 1..Len(loans') :
        loans[i].id = loans'[j].id
        => /\ loans'[j].amount = loans[i].amount
           /\ loans'[j].interestRate = loans[i].interestRate
           /\ loans'[j].term = loans[i].term
           /\ loans'[j].monthlyPayment = loans[i].monthlyPayment
           /\ loans'[j].remainingAmount # loans[i].remainingAmount
                => \E c \in CallIds :
                     /\ calls[c].op = "makeLoanPayment"
                     /\ calls[c].pc = "balance" /\ calls'[c].pc = "refresh" ]_vars

\* C29: when two makeLoanPayment calls on the same loan, made while neither
\* had written yet, have both returned without error, the remaining amount of
\* the loan is what it was when they were made minus both amounts.
NoLostLoanPayment ==
  \A c1, c2 \in CallIds :
    ( /\ c1 # c2
      /\ calls[c1].op = "makeLoanPayment" /\ calls[c2].op = "makeLoanPayment"
      /\ Returned(c1) /\ calls[c1].result = "ok"
      /\ Returned(c2) /\ calls[c2].result = "ok"
      /\ ~Falsy(calls[c1].acct) /\ ~Falsy(calls[c2].acct)
      /\ calls[c1].loanId = calls[c2].loanId
      /\ calls[c1].cLoans = calls[c2].cLoans
      /\ findIndex(loans, calls[c1].loanId) # 0 )
    => loans[findIndex(loans, calls[c1].loanId)].remainingAmount
         = calls[c1].cLoans[calls[c1].loanIndex].remainingAmount
           - calls[c1].amount - calls[c2].amount

\* C30: a makeLoanPayment that has returned without error was made with an
\* account id, has lowered the balance of the account and has added to the
\* transaction log: it has not resolved having done nothing.
ResolvedPaymentWasApplied ==
  \A c \in CallIds :
    (calls[c].op = "makeLoanPayment" /\ Returned(c) /\ calls[c].result = "ok")
    => /\ ~Falsy(calls[c].acct)
       /\ balance[MyAccountId] < calls[c].preBalance[MyAccountId]
       /\ Len(dbTransactions) > Len(calls[c].preTransactions)

====
